---- MODULE Spec2Model ----
(***************************************************************************)
(* Model of backend/data_processor.py (class DataProcessor): the pipeline  *)
(* process_and_export_json = process_raw_data, generate_time_series_data,  *)
(* json.dumps, run on one batch of raw records.                            *)
(*                                                                         *)
(* Units.  Temperatures are integers in tenths of a degree (26.5 -> 265).  *)
(* Probabilities are integers in thousandths (0.061 -> 61), the grain of   *)
(* round(x, 3).  Values returned by the interpolant are integers in        *)
(* ten-thousandths, so that the final round(float(p), 3) really rounds.    *)
(* Epochs are integers in hours, so that today's 02:00 is Today + 2.       *)
(*                                                                         *)
(* A Python value is a record [k |-> kind, v |-> integer]; v is 0 where    *)
(* the kind carries no number.                                             *)
(*                                                                         *)
(* The second part models backend/influx_sql_fetcher.py (the refresh       *)
(* thread storing batches in stored_data, get_data copying it under        *)
(* data_lock) and the request handlers of backend/main.py that read it.    *)
(* A Python list is an object of the heap, named by its index there, so    *)
(* that two names of one list see each other's changes; a list no name     *)
(* refers to any more leaves the heap.                                     *)
(***************************************************************************)
EXTENDS Integers, Sequences, FiniteSets

VARIABLES raw_data, now, pc, exc, processed_data, time_series_data, json_result

\* influx_sql_fetcher.py and main.py
VARIABLES
    heap,          \* the live list objects: heap[r] is the content of list r
    stored_data,   \* the module global: the list it is bound to
    data_lock,     \* "free", or the thread inside a with data_lock block
    fetch_fn,      \* the function the refresh thread is in
    fetch_pc,      \* its position there
    fetch_result,  \* the rows the query returned
    fetch_i,       \* the next row the loop converts
    data_list,     \* the list the loop builds
    refreshes,     \* queries issued so far
    published,     \* the whole batches refreshes have stored so far
    raw_ref,       \* the list get_data returned to the dashboard request
    health_pc,     \* position of a health_check request
    current_data,  \* the list get_data returned to it
    health_copy,   \* the content of that list when it was returned
    data_count     \* the count health_check reports

pipeline_vars ==
    <<raw_data, now, pc, exc, processed_data, time_series_data, json_result>>

fetch_vars ==
    <<heap, stored_data, data_lock, fetch_fn, fetch_pc, fetch_result, fetch_i,
      data_list, refreshes, published>>

request_vars == <<raw_ref>>

health_vars == <<health_pc, current_data, health_copy, data_count>>

vars == <<pipeline_vars, fetch_vars, request_vars, health_vars>>

(***************************************************************************)
(* Python values                                                           *)
(***************************************************************************)
E(k, v) == [k |-> k, v |-> v]

Absent == E("absent", 0)      \* the key is not in the dict
PyNone == E("none", 0)        \* None (or any value float() rejects with TypeError)
PyStr  == E("str", 1)         \* a non-numeric, non-empty string ("not-a-number", an ISO time)
PyEmptyStr == E("str", 0)     \* ''
PyNaN  == E("nan", 0)         \* float('nan'), or the string "nan"
PyBigInt == E("bigint", 0)    \* an int beyond the float range, such as 10**400
PyObj  == E("obj", 0)         \* an object json cannot serialise (a datetime, bytes)
PyFloat(x) == E("float", x)   \* a finite number
PyNumStr(x) == E("numstr", x) \* a string float() parses, such as "26.5"
PyInt(x) == E("int", x)       \* an integer timestamp

Rec(t, v, f, ts, tm) ==
    [temperature |-> t, value |-> v, field |-> f, timestamp |-> ts, time |-> tm]

FieldTemperature == E("temperature", 0)   \* 'field': 'temperature'
FieldOther == E("other", 0)               \* 'field': anything else, e.g. 'humidity'

(***************************************************************************)
(* Bounds and input alphabets                                              *)
(***************************************************************************)
MaxShort == 2    \* longest batch drawn from the full alphabet RawRecords
MaxLong == 4     \* longest batch drawn from SeriesRecords

\* every combination of the keys the extraction rules look at
RuleRecords ==
    { Rec(t, v, f, PyInt(1), PyStr) :
        t \in {Absent, PyFloat(300), PyStr},
        v \in {Absent, PyFloat(265), PyStr},
        f \in {Absent, FieldTemperature, FieldOther} }

\* the shapes a timestamp entry can take
StampRecords ==
    { Rec(Absent, PyFloat(400), FieldTemperature, ts, PyStr) :
        ts \in {Absent, PyInt(0), PyInt(2), PyStr, PyNone} }

\* the temperature values: below, at and above both bounds, and the
\* values float() treats specially
TempRecords ==
    { Rec(Absent, x, Absent, PyInt(1), PyStr) :
        x \in {PyFloat(240), PyFloat(250), PyFloat(251), PyFloat(400),
               PyFloat(494), PyFloat(495), PyFloat(500),
               PyNumStr(265), PyNaN, PyNone, PyBigInt} }

\* the shapes a time entry can take; the first is the record
\* {"timestamp": 0, "value": 26.5, "field": "temperature"}
TimeRecords ==
    { Rec(Absent, PyFloat(265), FieldTemperature, PyInt(0), tm) :
        tm \in {Absent, PyObj} }

RawRecords == RuleRecords \cup StampRecords \cup TempRecords \cup TimeRecords

\* well-formed readings at four instants, as in the sample data of the
\* module's self-test, and one NaN reading
SeriesRecords ==
    { Rec(Absent, PyFloat(x), FieldTemperature, PyInt(ts), PyStr) :
        x \in {265, 500}, ts \in {1, 2, 3, 4} }
    \cup { Rec(Absent, PyNaN, FieldTemperature, PyInt(4), PyStr) }

SeqsUpTo(S, n) == UNION { [1..m -> S] : m \in 0..n }

Batches == SeqsUpTo(RawRecords, MaxShort) \cup SeqsUpTo(SeriesRecords, MaxLong)

\* datetime.now(), in epoch hours: day 10 at 06:00 and day 11 at 23:00
Clocks == {246, 287}

(***************************************************************************)
(* DataProcessor.__init__                                                  *)
(***************************************************************************)
min_temp == 250
max_temp == 495

time_labels ==
    <<"02am", "04am", "06am", "08am", "10am", "12pm",
      "02pm", "04pm", "06pm", "08pm", "10pm">>

(***************************************************************************)
(* Python built-ins the processor calls                                    *)
(***************************************************************************)
NoExc == ""

\* float(x): the converted value, or the exception float() raises
float_(x) ==
    CASE x.k \in {"float", "numstr"} -> [exc |-> NoExc, val |-> PyFloat(x.v)]
      [] x.k = "nan"    -> [exc |-> NoExc, val |-> PyNaN]
      [] x.k = "str"    -> [exc |-> "ValueError", val |-> PyNone]
      [] x.k = "bigint" -> [exc |-> "OverflowError", val |-> PyNone]
      [] OTHER          -> [exc |-> "TypeError", val |-> PyNone]

\* round(num/den, 3) in thousandths, den > 0.  No quotient the processor
\* forms lies exactly half way between two thousandths (see
\* temperature_to_percentage), so rounding to nearest needs no tie rule.
round3(num, den) == (2000 * num + den) \div (2 * den)

\* dict.get(key, default)
get(entry, default) == IF entry.k = "absent" THEN default ELSE entry

\* a < b on two timestamp values; meaningful when Comparable(a, b)
Comparable(a, b) == a.k = b.k /\ a.k \in {"int", "str"}
Less(a, b) == Comparable(a, b) /\ a.v < b.v

(***************************************************************************)
(* temperature_to_percentage                                               *)
(***************************************************************************)
\* A plausible slip: the quotient truncated instead of rounded.
temperature_to_percentage_truncating(temperature) ==
    IF temperature.k = "nan" THEN PyNaN
    ELSE IF temperature.v <= min_temp THEN PyFloat(0)
    ELSE IF temperature.v >= max_temp THEN PyFloat(1000)
    ELSE PyFloat((1000 * (temperature.v - min_temp)) \div (max_temp - min_temp))

\* Every comparison with NaN is false, so NaN reaches the else branch,
\* where the quotient and round(nan, 3) are NaN again.
temperature_to_percentage(temperature) ==
    IF temperature.k = "nan" THEN PyNaN
    ELSE IF temperature.v <= min_temp THEN PyFloat(0)
    ELSE IF temperature.v >= max_temp THEN PyFloat(1000)
    ELSE PyFloat(round3(temperature.v - min_temp, max_temp - min_temp))

(***************************************************************************)
(* process_raw_data                                                        *)
(***************************************************************************)
\* The if/elif chain of lines 49-56 as the specification words it: the
\* bare value field counts only when the record has no field metadata.
extract_temperature_strict(data_point) ==
    IF data_point.temperature.k # "absent"
    THEN float_(data_point.temperature)
    ELSE IF data_point.value.k # "absent" /\ data_point.field = FieldTemperature
    THEN float_(data_point.value)
    ELSE IF data_point.value.k # "absent" /\ data_point.field = Absent
    THEN float_(data_point.value)
    ELSE [exc |-> NoExc, val |-> PyNone]

\* The if/elif chain of lines 49-56: the temperature, None when no branch
\* is taken, or the exception float() raised.
extract_temperature(data_point) ==
    IF data_point.temperature.k # "absent"
    THEN float_(data_point.temperature)
    ELSE IF data_point.value.k # "absent" /\ data_point.field = FieldTemperature
    THEN float_(data_point.value)
    ELSE IF data_point.value.k # "absent"
    THEN float_(data_point.value)
    ELSE [exc |-> NoExc, val |-> PyNone]

\* The processed_point dict of lines 61-67.  original_data is the raw
\* dict itself: its content, and in src its identity (its place in
\* raw_data).
processed_point(data_point, src, temperature) ==
    [timestamp |-> get(data_point.timestamp, PyInt(0)),
     time |-> get(data_point.time, PyEmptyStr),
     temperature |-> temperature,
     fault_probability |-> temperature_to_percentage(temperature),
     original_data |-> data_point,
     src |-> src]

\* The exceptions the except clause of line 70 catches
Caught == {"ValueError", "KeyError", "TypeError"}

\* A plausible slip: the loop ends at the first record it cannot convert.
RECURSIVE process_loop_aborting(_, _, _)
process_loop_aborting(raw, i, acc) ==
    IF i > Len(raw) THEN [exc |-> NoExc, data |-> acc]
    ELSE LET r == extract_temperature(raw[i])
         IN  IF r.exc # NoExc
             THEN [exc |-> NoExc, data |-> acc]
             ELSE IF r.val = PyNone
             THEN process_loop_aborting(raw, i + 1, acc)
             ELSE process_loop_aborting(raw, i + 1,
                      Append(acc, processed_point(raw[i], i, r.val)))

\* The for loop of lines 46-72, from record i on, with processed_data so
\* far in acc: a caught exception skips the record, any other leaves the
\* function.
RECURSIVE process_loop(_, _, _)
process_loop(raw, i, acc) ==
    IF i > Len(raw) THEN [exc |-> NoExc, data |-> acc]
    ELSE LET r == extract_temperature(raw[i])
         IN  IF r.exc \in Caught
             THEN process_loop(raw, i + 1, acc)
             ELSE IF r.exc # NoExc
             THEN [exc |-> r.exc, data |-> acc]
             ELSE IF r.val = PyNone
             THEN process_loop(raw, i + 1, acc)
             ELSE process_loop(raw, i + 1,
                      Append(acc, processed_point(raw[i], i, r.val)))

\* A plausible slip: a sort that puts a point before its equals.
RECURSIVE insert_before_equals(_, _)
insert_before_equals(sorted, p) ==
    IF sorted = <<>> THEN <<p>>
    ELSE IF Less(sorted[Len(sorted)].timestamp, p.timestamp)
    THEN Append(sorted, p)
    ELSE Append(insert_before_equals(SubSeq(sorted, 1, Len(sorted) - 1), p),
                sorted[Len(sorted)])

\* list.sort is stable: p goes after every point whose key is not greater.
RECURSIVE insert_sorted(_, _)
insert_sorted(sorted, p) ==
    IF sorted = <<>> THEN <<p>>
    ELSE IF Less(p.timestamp, sorted[Len(sorted)].timestamp)
    THEN Append(insert_sorted(SubSeq(sorted, 1, Len(sorted) - 1), p),
                sorted[Len(sorted)])
    ELSE Append(sorted, p)

RECURSIVE sort_from(_, _, _)
sort_from(data, i, sorted) ==
    IF i > Len(data) THEN sorted
    ELSE sort_from(data, i + 1, insert_sorted(sorted, data[i]))

\* processed_data.sort(key=lambda x: x['timestamp']), line 75.  Sorting
\* two or more keys compares them: keys of different types, or two None,
\* raise TypeError.  The sort is outside the try block of the loop.
sort_by_timestamp(data) ==
    IF \E i, j \in 1..Len(data) :
           i < j /\ ~Comparable(data[i].timestamp, data[j].timestamp)
    THEN [exc |-> "TypeError", data |-> data]
    ELSE [exc |-> NoExc, data |-> sort_from(data, 1, <<>>)]

process_raw_data(raw) ==
    LET looped == process_loop(raw, 1, <<>>)
    IN  IF looped.exc # NoExc THEN looped ELSE sort_by_timestamp(looped.data)

(***************************************************************************)
(* generate_target_timestamps, get_recent_dates, get_empty_time_series     *)
(***************************************************************************)
HoursPerDay == 24

\* now.replace(hour=0, minute=0, second=0, microsecond=0)
today(clock) == clock - (clock % HoursPerDay)

target_hours == <<2, 4, 6, 8, 10, 12, 14, 16, 18, 20, 22>>

generate_target_timestamps(clock) ==
    [i \in 1..Len(target_hours) |-> today(clock) + target_hours[i]]

\* the last 7 calendar days, today first, each as its day number
get_recent_dates(clock) ==
    [i \in 1..7 |-> (clock - HoursPerDay * (i - 1)) \div HoursPerDay]

\* A plausible slip: the fallback report announcing the full device list.
get_empty_time_series_three_devices(clock) ==
    [timeSeries |->
        [i \in 1..Len(time_labels) |->
            [time |-> time_labels[i], probability |-> PyFloat(0), timestamp |-> clock]],
     latestData |->
        [temperature |-> PyFloat(250), faultProbability |-> PyFloat(0),
         timestamp |-> PyStr],
     availableWaterJets |-> <<"WaterJet_01", "WaterJet_02", "WaterJet_03">>,
     availableDates |-> get_recent_dates(clock)]

get_empty_time_series(clock) ==
    [timeSeries |->
        [i \in 1..Len(time_labels) |->
            [time |-> time_labels[i], probability |-> PyFloat(0), timestamp |-> clock]],
     latestData |->
        [temperature |-> PyFloat(250), faultProbability |-> PyFloat(0),
         timestamp |-> PyStr],
     availableWaterJets |-> <<"WaterJet_01">>,
     availableDates |-> get_recent_dates(clock)]

(***************************************************************************)
(* scipy.interpolate.interp1d and numpy.clip                               *)
(***************************************************************************)
\* What the fitted interpolant may return at the 11 targets, in
\* ten-thousandths: the library's arithmetic is not reproduced, any real
\* vector is a possible answer, and these four sample the cases that
\* matter to the caller: all below 0, all inside [0,1], rising through 0,
\* rising through 1.
InterpCurves ==
    { [i \in 1..11 |-> a + b * i] : a \in {-3000, 2004}, b \in {0, 1112} }

\* interp1d(timestamps, probabilities, kind='cubic', bounds_error=False,
\* fill_value='extrapolate') followed by interp_func(target_times).
\* The constructor raises ValueError for fewer than 4 points (a cubic
\* spline has order 3), for x values that are not numbers and for x values
\* that repeat.  A NaN anywhere in y makes every value NaN.
interp1d(timestamps, probabilities, curve) ==
    IF \/ Len(timestamps) < 4
       \/ \E i \in 1..Len(timestamps) : timestamps[i].k # "int"
       \/ \E i, j \in 1..Len(timestamps) : i < j /\ timestamps[i] = timestamps[j]
    THEN [exc |-> "ValueError", val |-> <<>>]
    ELSE IF \E i \in 1..Len(probabilities) : probabilities[i].k = "nan"
    THEN [exc |-> NoExc, val |-> [i \in 1..11 |-> PyNaN]]
    ELSE [exc |-> NoExc, val |-> [i \in 1..11 |-> PyFloat(curve[i])]]

\* np.clip(x, 0, 1) on one value in ten-thousandths; NaN stays NaN
clip(x) ==
    IF x.k = "nan" THEN x
    ELSE IF x.v < 0 THEN PyFloat(0)
    ELSE IF x.v > 10000 THEN PyFloat(10000)
    ELSE x

\* round(float(probability), 3): from ten-thousandths to thousandths
round_probability(x) ==
    IF x.k = "nan" THEN x ELSE PyFloat(round3(x.v, 10000))

(***************************************************************************)
(* generate_time_series_data                                               *)
(***************************************************************************)
\* A plausible slip: the single-point branch filling with its default 0.5.
constant_fill_default(probabilities) ==
    [i \in 1..Len(target_hours) |-> PyFloat(5000)]

\* [probabilities[0] if probabilities else 0.5] * len(target_times), line
\* 112, in ten-thousandths
constant_fill(probabilities) ==
    [i \in 1..Len(target_hours) |->
        IF probabilities = <<>> THEN PyFloat(5000)
        ELSE IF probabilities[1].k = "nan" THEN PyNaN
        ELSE PyFloat(10 * probabilities[1].v)]

\* A plausible slip: the first point taken for the latest.
latest_point_first(processed) == processed[1]

\* processed_data[-1], line 124
latest_point(processed) == processed[Len(processed)]

\* zip(self.time_labels, interpolated_probabilities) of lines 115-121
build_time_series(interpolated, target_times) ==
    [i \in 1..(IF Len(time_labels) < Len(interpolated)
               THEN Len(time_labels) ELSE Len(interpolated)) |->
        [time |-> time_labels[i],
         probability |-> round_probability(interpolated[i]),
         timestamp |-> target_times[i]]]

\* lines 88-143: the body of the try block; exc is what it raises
series_construction(processed, clock, curve) ==
    LET timestamps == [i \in 1..Len(processed) |-> processed[i].timestamp]
        probabilities == [i \in 1..Len(processed) |-> processed[i].fault_probability]
        target_times == generate_target_timestamps(clock)
        fitted == IF Len(timestamps) >= 2
                  THEN interp1d(timestamps, probabilities, curve)
                  ELSE [exc |-> NoExc, val |-> <<>>]
        interpolated == IF Len(timestamps) >= 2
                        THEN [i \in 1..Len(fitted.val) |-> clip(fitted.val[i])]
                        ELSE constant_fill(probabilities)
        latest_data == latest_point(processed)
    IN  IF fitted.exc # NoExc
        THEN [exc |-> fitted.exc, result |-> <<>>]
        ELSE [exc |-> NoExc,
              result |-> <<[timeSeries |-> build_time_series(interpolated, target_times),
                            latestData |->
                               [temperature |-> latest_data.temperature,
                                faultProbability |-> latest_data.fault_probability,
                                timestamp |-> latest_data.time],
                            availableWaterJets |->
                               <<"WaterJet_01", "WaterJet_02", "WaterJet_03">>,
                            availableDates |-> get_recent_dates(clock)]>>]

generate_time_series_data(processed, clock, curve) ==
    IF processed = <<>> THEN get_empty_time_series(clock)
    ELSE LET built == series_construction(processed, clock, curve)
         IN  IF built.exc # NoExc THEN get_empty_time_series(clock)
             ELSE built.result[1]

(***************************************************************************)
(* process_and_export_json                                                 *)
(***************************************************************************)
\* json.dumps(time_series_data, ensure_ascii=False, indent=2): TypeError
\* for a value json cannot serialise; NaN is written as NaN
json_dumps(report) ==
    IF report.latestData.timestamp.k = "obj"
    THEN [exc |-> "TypeError", text |-> <<>>]
    ELSE [exc |-> NoExc, text |-> <<report>>]

\* a name bound to no list
NoList == 0

\* influx_sql_fetcher.py as imported: stored_data = [], nothing running
FetcherInit ==
    /\ heap = [r \in {1} |-> <<>>]
    /\ stored_data = 1
    /\ data_lock = "free"
    /\ fetch_fn = "fetch_loop"
    /\ fetch_pc = "sleep"
    /\ fetch_result = <<>>
    /\ fetch_i = 1
    /\ data_list = NoList
    /\ refreshes = 0
    /\ published = {}
    /\ raw_ref = NoList
    /\ health_pc = "idle"
    /\ current_data = NoList
    /\ health_copy = <<>>
    /\ data_count = 0

Init ==
    /\ raw_data \in Batches
    /\ now \in Clocks
    /\ pc = "process_raw_data"
    /\ exc = NoExc
    /\ processed_data = <<>>
    /\ time_series_data = <<>>
    /\ json_result = <<>>
    /\ FetcherInit

\* line 201
call_process_raw_data ==
    /\ pc = "process_raw_data"
    /\ LET r == process_raw_data(raw_data)
       IN  IF r.exc # NoExc
           THEN /\ pc' = "raised"
                /\ exc' = r.exc
                /\ UNCHANGED processed_data
           ELSE /\ pc' = "generate_time_series_data"
                /\ processed_data' = r.data
                /\ UNCHANGED exc
    /\ UNCHANGED <<raw_data, now, time_series_data, json_result>>
    /\ UNCHANGED <<fetch_vars, request_vars, health_vars>>

\* line 204
call_generate_time_series_data ==
    /\ pc = "generate_time_series_data"
    /\ \E curve \in InterpCurves :
          time_series_data' = <<generate_time_series_data(processed_data, now, curve)>>
    /\ pc' = "json_dumps"
    /\ UNCHANGED <<raw_data, now, exc, processed_data, json_result>>
    /\ UNCHANGED <<fetch_vars, request_vars, health_vars>>

\* lines 207-210
call_json_dumps ==
    /\ pc = "json_dumps"
    /\ LET r == json_dumps(time_series_data[1])
       IN  IF r.exc # NoExc
           THEN /\ pc' = "raised"
                /\ exc' = r.exc
                /\ UNCHANGED json_result
           ELSE /\ pc' = "returned"
                /\ json_result' = r.text
                /\ UNCHANGED exc
    /\ UNCHANGED <<raw_data, now, processed_data, time_series_data>>
    /\ UNCHANGED <<fetch_vars, request_vars, health_vars>>

Next ==
    \/ call_process_raw_data
    \/ call_generate_time_series_data
    \/ call_json_dumps

Spec == Init /\ [][Next]_vars

(***************************************************************************)
(* influx_sql_fetcher.py: what the queries return                          *)
(***************************************************************************)
MaxRows == 2        \* most rows a query returns
MaxRefreshes == 2   \* most calls of fetch_data_with_sql by the refresh thread

\* The i-th FluxRecord of the n-th query: _time in epoch hours, later for
\* each query, and a numeric _value; _field is 'temperature' for every
\* one, as the query filters on it.
FluxRecord(n, i) ==
    [_time |-> n * (MaxRows + 1) + i, _value |-> PyFloat(300 + i)]

\* what the n-th query may return: up to MaxRows new readings
QueryResults(n) == { [i \in 1..k |-> FluxRecord(n, i)] : k \in 0..MaxRows }

\* A plausible slip: the reading stored under the key the processor reads.
fetched_data_point_value_key(record) ==
    [time |-> PyStr,
     _field |-> FieldTemperature,
     _value |-> record._value,
     _measurement |-> PyStr,
     timestamp |-> PyInt(record._time),
     temperature |-> Absent,
     value |-> record._value,
     field |-> Absent]

\* The data_point dict of lines 69-75 (and 120-126): five keys, none of
\* them 'temperature', 'value' or 'field', which are shown as absent.
fetched_data_point(record) ==
    [time |-> PyStr,
     _field |-> FieldTemperature,
     _value |-> record._value,
     _measurement |-> PyStr,
     timestamp |-> PyInt(record._time),
     temperature |-> Absent,
     value |-> Absent,
     field |-> Absent]

\* the batch a refresh stores when its loop runs to the end
whole_batch(result) == [i \in 1..Len(result) |-> fetched_data_point(result[i])]

(***************************************************************************)
(* List objects                                                            *)
(***************************************************************************)
\* the name of a new list
fresh(h) == CHOOSE r \in 1..(Cardinality(DOMAIN h) + 1) : r \notin DOMAIN h

\* h with list r bound to content
with_list(h, r, content) ==
    [x \in DOMAIN h \cup {r} |-> IF x = r THEN content ELSE h[x]]

\* h without the lists no name refers to any more
collect(h, names) == [x \in DOMAIN h \cap names |-> h[x]]

(***************************************************************************)
(* The refresh thread: fetch_loop, fetch_data_with_sql, try_backup_query   *)
(***************************************************************************)
\* fetch_loop calls fetch_data_with_sql (lines 222-223)
fetch_loop ==
    /\ fetch_pc = "sleep"
    /\ refreshes < MaxRefreshes
    /\ refreshes' = refreshes + 1
    /\ fetch_fn' = "fetch_data_with_sql"
    /\ fetch_pc' = "query"
    /\ UNCHANGED <<heap, stored_data, data_lock, fetch_result, fetch_i, data_list,
                   published>>
    /\ UNCHANGED <<pipeline_vars, request_vars, health_vars>>

\* where an exception goes: from fetch_data_with_sql to try_backup_query
\* (lines 90-93), from try_backup_query to the log and back (lines 134-135);
\* the function's locals are gone
after_exception ==
    /\ IF fetch_fn = "fetch_data_with_sql"
       THEN /\ fetch_fn' = "try_backup_query"
            /\ fetch_pc' = "query"
       ELSE /\ fetch_fn' = "fetch_loop"
            /\ fetch_pc' = "sleep"
    /\ fetch_result' = <<>>
    /\ fetch_i' = 1
    /\ data_list' = NoList
    /\ heap' = collect(heap, {stored_data, raw_ref, current_data})

\* query_api.query(...) returns, data_list = [] (lines 61-65, 114-117)
query_returns ==
    /\ fetch_pc = "query"
    /\ \E result \in QueryResults(refreshes) : fetch_result' = result
    /\ heap' = with_list(heap, fresh(heap), <<>>)
    /\ data_list' = fresh(heap)
    /\ fetch_i' = 1
    /\ fetch_pc' = "loop"
    /\ UNCHANGED <<stored_data, data_lock, fetch_fn, refreshes, published>>
    /\ UNCHANGED <<pipeline_vars, request_vars, health_vars>>

\* query_api.query(...) raises
query_raises ==
    /\ fetch_pc = "query"
    /\ after_exception
    /\ UNCHANGED <<stored_data, data_lock, refreshes, published>>
    /\ UNCHANGED <<pipeline_vars, request_vars, health_vars>>

\* A plausible slip: the refresh filling the published list in place.
loop_append_in_place ==
    /\ fetch_pc = "loop"
    /\ fetch_i <= Len(fetch_result)
    /\ heap' = [heap EXCEPT ![stored_data] =
                   Append(@, fetched_data_point(fetch_result[fetch_i]))]
    /\ fetch_i' = fetch_i + 1
    /\ UNCHANGED <<stored_data, data_lock, fetch_fn, fetch_pc, fetch_result,
                   data_list, refreshes, published>>
    /\ UNCHANGED <<pipeline_vars, request_vars, health_vars>>

\* one turn of the loop: data_list.append(data_point) (lines 66-82, 118-127)
loop_append ==
    /\ fetch_pc = "loop"
    /\ fetch_i <= Len(fetch_result)
    /\ heap' = [heap EXCEPT ![data_list] =
                   Append(@, fetched_data_point(fetch_result[fetch_i]))]
    /\ fetch_i' = fetch_i + 1
    /\ UNCHANGED <<stored_data, data_lock, fetch_fn, fetch_pc, fetch_result,
                   data_list, refreshes, published>>
    /\ UNCHANGED <<pipeline_vars, request_vars, health_vars>>

\* one turn of the loop raises (a record without _time, say): the list
\* built so far is dropped
loop_raises ==
    /\ fetch_pc = "loop"
    /\ fetch_i <= Len(fetch_result)
    /\ after_exception
    /\ UNCHANGED <<stored_data, data_lock, refreshes, published>>
    /\ UNCHANGED <<pipeline_vars, request_vars, health_vars>>

\* with data_lock: entered once the loop has ended (lines 85, 129)
store_acquire ==
    /\ fetch_pc = "loop"
    /\ fetch_i > Len(fetch_result)
    /\ data_lock = "free"
    /\ data_lock' = "refresh"
    /\ fetch_pc' = "store"
    /\ UNCHANGED <<heap, stored_data, fetch_fn, fetch_result, fetch_i, data_list,
                   refreshes, published>>
    /\ UNCHANGED <<pipeline_vars, request_vars, health_vars>>

\* stored_data = data_list, the lock released and the function left
\* (lines 86-88, 130-132): the list stored before has no name left
store ==
    /\ fetch_pc = "store"
    /\ stored_data' = data_list
    /\ published' = published \cup {whole_batch(fetch_result)}
    /\ data_lock' = "free"
    /\ fetch_fn' = "fetch_loop"
    /\ fetch_pc' = "sleep"
    /\ fetch_result' = <<>>
    /\ fetch_i' = 1
    /\ data_list' = NoList
    /\ heap' = collect(heap, {data_list, raw_ref, current_data})
    /\ UNCHANGED refreshes
    /\ UNCHANGED <<pipeline_vars, request_vars, health_vars>>

(***************************************************************************)
(* get_data, called by get_current_dashboard and by health_check           *)
(***************************************************************************)
\* main.py line 41 entering get_data: with data_lock (line 216)
dashboard_acquire ==
    /\ pc = "idle"
    /\ data_lock = "free"
    /\ data_lock' = "dashboard"
    /\ pc' = "get_data"
    /\ UNCHANGED <<raw_data, now, exc, processed_data, time_series_data, json_result>>
    /\ UNCHANGED <<heap, stored_data, fetch_fn, fetch_pc, fetch_result, fetch_i,
                   data_list, refreshes, published, raw_ref, health_vars>>

\* return stored_data.copy() (line 217): a new list with the elements of
\* the stored one.  raw_data keeps the content as returned; the list
\* itself is heap[raw_ref].
dashboard_get_data ==
    /\ pc = "get_data"
    /\ heap' = with_list(heap, fresh(heap), heap[stored_data])
    /\ raw_ref' = fresh(heap)
    /\ raw_data' = heap[stored_data]
    /\ data_lock' = "free"
    /\ pc' = "process_raw_data"
    /\ UNCHANGED <<now, exc, processed_data, time_series_data, json_result>>
    /\ UNCHANGED <<stored_data, fetch_fn, fetch_pc, fetch_result, fetch_i,
                   data_list, refreshes, published, health_vars>>

\* main.py lines 45-58: the response sent, the request's locals gone
dashboard_respond ==
    /\ pc \in {"returned", "raised"}
    /\ raw_ref # NoList
    /\ pc' = "idle"
    /\ exc' = NoExc
    /\ raw_data' = <<>>
    /\ processed_data' = <<>>
    /\ time_series_data' = <<>>
    /\ json_result' = <<>>
    /\ raw_ref' = NoList
    /\ heap' = collect(heap, {stored_data, data_list, current_data})
    /\ UNCHANGED now
    /\ UNCHANGED <<stored_data, data_lock, fetch_fn, fetch_pc, fetch_result,
                   fetch_i, data_list, refreshes, published, health_vars>>

\* main.py line 110 entering get_data
health_acquire ==
    /\ health_pc = "idle"
    /\ data_lock = "free"
    /\ data_lock' = "health"
    /\ health_pc' = "get_data"
    /\ UNCHANGED <<current_data, health_copy, data_count>>
    /\ UNCHANGED <<heap, stored_data, fetch_fn, fetch_pc, fetch_result, fetch_i,
                   data_list, refreshes, published>>
    /\ UNCHANGED <<pipeline_vars, request_vars>>

\* current_data = get_data()
health_get_data ==
    /\ health_pc = "get_data"
    /\ heap' = with_list(heap, fresh(heap), heap[stored_data])
    /\ current_data' = fresh(heap)
    /\ health_copy' = heap[stored_data]
    /\ data_lock' = "free"
    /\ health_pc' = "len"
    /\ UNCHANGED data_count
    /\ UNCHANGED <<stored_data, fetch_fn, fetch_pc, fetch_result, fetch_i,
                   data_list, refreshes, published>>
    /\ UNCHANGED <<pipeline_vars, request_vars>>

\* "data_count": len(current_data) (main.py line 115)
health_count ==
    /\ health_pc = "len"
    /\ data_count' = Len(heap[current_data])
    /\ health_pc' = "respond"
    /\ UNCHANGED <<current_data, health_copy>>
    /\ UNCHANGED <<pipeline_vars, fetch_vars, request_vars>>

\* the response sent, the request's locals gone
health_respond ==
    /\ health_pc = "respond"
    /\ health_pc' = "idle"
    /\ current_data' = NoList
    /\ health_copy' = <<>>
    /\ data_count' = 0
    /\ heap' = collect(heap, {stored_data, data_list, raw_ref})
    /\ UNCHANGED <<stored_data, data_lock, fetch_fn, fetch_pc, fetch_result,
                   fetch_i, data_list, refreshes, published>>
    /\ UNCHANGED <<pipeline_vars, request_vars>>

\* the server running at 06:00 of day 10: no request in progress, nothing
\* fetched yet
InitFetch ==
    /\ raw_data = <<>>
    /\ now = 246
    /\ pc = "idle"
    /\ exc = NoExc
    /\ processed_data = <<>>
    /\ time_series_data = <<>>
    /\ json_result = <<>>
    /\ FetcherInit

NextFetch ==
    \/ fetch_loop
    \/ query_returns
    \/ query_raises
    \/ loop_append
    \/ loop_raises
    \/ store_acquire
    \/ store
    \/ dashboard_acquire
    \/ dashboard_get_data
    \/ call_process_raw_data
    \/ call_generate_time_series_data
    \/ call_json_dumps
    \/ dashboard_respond
    \/ health_acquire
    \/ health_get_data
    \/ health_count
    \/ health_respond

SpecFetch == InitFetch /\ [][NextFetch]_vars

(***************************************************************************)
(* Vocabulary of the properties                                            *)
(***************************************************************************)
\* process_raw_data has returned processed_data to its caller
Sanitized ==
    \/ pc \in {"generate_time_series_data", "json_dumps", "returned"}
    \/ pc = "raised" /\ time_series_data # <<>>

\* process_raw_data raised
SanitizerRaised == pc = "raised" /\ time_series_data = <<>>

\* generate_time_series_data has returned a Report
Reported == time_series_data # <<>>
Report == time_series_data[1]

OneDevice == <<"WaterJet_01">>
ThreeDevices == <<"WaterJet_01", "WaterJet_02", "WaterJet_03">>

\* today's epoch at the i-th target hour: 02:00, 04:00, ..., 22:00
SlotEpoch(i) == now - (now % 24) + 2 * i

\* the entry a record's temperature is read from: the temperature field
\* if the record has one, otherwise the value field (absent if neither)
Selected(rec) ==
    IF rec.temperature.k # "absent" THEN rec.temperature ELSE rec.value

\* float() turns the entry into a number
Convertible(entry) == entry.k \in {"float", "numstr", "nan"}

\* the entry is there and is no number: a string that is not numeric, None
Malformed(entry) == entry.k \in {"str", "none"}

\* the points of processed_data made from raw_data[k]
PointsOf(k) == {i \in 1..Len(processed_data) : processed_data[i].src = k}

\* series construction cannot succeed on these points: two or three
\* points, or several with a timestamp that is no number or is repeated
ConstructionFails(points) ==
    /\ Len(points) >= 2
    /\ \/ Len(points) < 4
       \/ \E i \in 1..Len(points) : points[i].timestamp.k # "int"
       \/ \E i, j \in 1..Len(points) :
              i < j /\ points[i].timestamp = points[j].timestamp

(***************************************************************************)
(* C1  process_and_export_json never propagates an exception: whatever    *)
(* the raw records hold, the call ends by returning.                       *)
(* Fails: the sort of line 75 is outside the try block and raises          *)
(* TypeError on timestamps of different types.                             *)
(***************************************************************************)
C1_NeverRaises == pc # "raised"

(***************************************************************************)
(* C2  Every Report has exactly 11 series entries, labelled 02am..10pm in  *)
(* that order, with every probability a number in [0,1].                   *)
(* Fails: a NaN temperature gives NaN probabilities.                       *)
(***************************************************************************)
C2_SeriesWellFormed ==
    Reported =>
        /\ Len(Report.timeSeries) = 11
        /\ [i \in 1..11 |-> Report.timeSeries[i].time] =
               <<"02am", "04am", "06am", "08am", "10am", "12pm",
                 "02pm", "04pm", "06pm", "08pm", "10pm">>
        /\ \A i \in 1..11 :
               /\ Report.timeSeries[i].probability.k = "float"
               /\ Report.timeSeries[i].probability.v \in 0..1000

(***************************************************************************)
(* C3  For every sanitized point with a real temperature t, its            *)
(* probability is 0 for t <= 25.0, 1 for t >= 49.5, and otherwise the      *)
(* thousandth nearest to (t - 25.0) / 24.5; it lies in [0,1], and among    *)
(* the points of a batch a higher temperature never has a lower            *)
(* probability.                                                            *)
(***************************************************************************)
C3_SaturatingLinearMap ==
    \A i \in 1..Len(processed_data) :
        LET t == processed_data[i].temperature
            p == processed_data[i].fault_probability
        IN  t.k = "float" =>
              /\ p.k = "float"
              /\ p.v \in 0..1000
              /\ t.v <= 250 => p.v = 0
              /\ t.v >= 495 => p.v = 1000
              /\ (t.v > 250 /\ t.v < 495) =>
                    /\ 490 * p.v - 245 <= 2000 * (t.v - 250)
                    /\ 2000 * (t.v - 250) < 490 * p.v + 245
              /\ \A j \in 1..Len(processed_data) :
                    LET u == processed_data[j].temperature
                        q == processed_data[j].fault_probability
                    IN  (u.k = "float" /\ t.v <= u.v) => p.v <= q.v

\* two points of one batch, one below the range and one just under its top
C3_Witness ==
    /\ Sanitized
    /\ \E i, j \in 1..Len(processed_data) :
          /\ processed_data[i].temperature = PyFloat(240)
          /\ processed_data[j].temperature = PyFloat(494)
          /\ processed_data[j].fault_probability = PyFloat(996)

(***************************************************************************)
(* C4  For two or more sanitized points with strictly increasing           *)
(* timestamps the Report is built by interpolation: it is not the          *)
(* fallback, its probabilities are numbers in [0,1] and its series         *)
(* timestamps are the target-slot epochs.                                  *)
(* Fails: with two or three points the cubic fit raises and the fallback   *)
(* Report is returned.                                                     *)
(***************************************************************************)
C4_InterpolatesFromTwoPoints ==
    ( /\ Reported
      /\ Len(processed_data) >= 2
      /\ \A i \in 1..Len(processed_data) : processed_data[i].timestamp.k = "int"
      /\ \A i \in 1..(Len(processed_data) - 1) :
            processed_data[i].timestamp.v < processed_data[i + 1].timestamp.v
      /\ \A i \in 1..Len(processed_data) :
            processed_data[i].fault_probability.k = "float" )
    =>
    /\ Report.availableWaterJets = ThreeDevices
    /\ \A i \in 1..11 :
          /\ Report.timeSeries[i].timestamp = SlotEpoch(i)
          /\ Report.timeSeries[i].probability.v \in 0..1000

(***************************************************************************)
(* C5  With exactly one sanitized point of real temperature t, the 11      *)
(* probabilities all equal normalize(t), each at its target-slot epoch,    *)
(* and latestData.temperature is t; the record {timestamp 0, value 26.5,   *)
(* field temperature} gives 11 times 0.061 and latestData.temperature      *)
(* 26.5.                                                                   *)
(***************************************************************************)
C5_Example == <<Rec(Absent, PyFloat(265), FieldTemperature, PyInt(0), Absent)>>

C5_ConstantFill ==
    /\ ( /\ Reported
         /\ Len(processed_data) = 1
         /\ processed_data[1].temperature.k = "float" )
       =>
       /\ Len(Report.timeSeries) = 11
       /\ \A i \in 1..11 :
             /\ Report.timeSeries[i].probability =
                    temperature_to_percentage(processed_data[1].temperature)
             /\ Report.timeSeries[i].timestamp = SlotEpoch(i)
       /\ Report.latestData.temperature = processed_data[1].temperature
    /\ (Reported /\ raw_data = C5_Example)
       =>
       /\ \A i \in 1..11 : Report.timeSeries[i].probability = PyFloat(61)
       /\ Report.latestData.temperature = PyFloat(265)

\* the Report of the example record
C5_Witness ==
    /\ Reported
    /\ raw_data = C5_Example
    /\ Len(processed_data) = 1
    /\ Report.timeSeries[11].probability = PyFloat(61)

(***************************************************************************)
(* C6  As claimed: whenever the sanitized sequence is non-empty,           *)
(* latestData is that of its last element, and the fixed 25.0 / 0.0 of     *)
(* the fallback appear only when the sequence is empty.                    *)
(* Fails: the fallback Report is also returned when series construction    *)
(* fails on a non-empty sequence.                                          *)
(***************************************************************************)
C6_LatestIsLastWheneverNonEmpty ==
    (Reported /\ processed_data # <<>>) =>
        /\ Report.latestData.temperature =
               processed_data[Len(processed_data)].temperature
        /\ Report.latestData.faultProbability =
               processed_data[Len(processed_data)].fault_probability
        /\ Report.availableWaterJets = ThreeDevices

(***************************************************************************)
(* C6 (amended)  Whenever the sanitized sequence is non-empty and series   *)
(* construction does not fail, latestData is that of the point with the    *)
(* greatest timestamp (among equal greatest timestamps, the one latest in  *)
(* input order); the fallback's fixed 25.0 / 0.0 are returned exactly      *)
(* when the sequence is empty or series construction fails.                *)
(***************************************************************************)
C6_LatestIsLastUnlessFallback ==
    Reported =>
        IF processed_data = <<>> \/ ConstructionFails(processed_data)
        THEN /\ Report.latestData.temperature = PyFloat(250)
             /\ Report.latestData.faultProbability = PyFloat(0)
             /\ Report.availableWaterJets = OneDevice
        ELSE /\ Report.availableWaterJets = ThreeDevices
             /\ \E i \in 1..Len(processed_data) :
                   /\ Report.latestData.temperature = processed_data[i].temperature
                   /\ Report.latestData.faultProbability =
                          processed_data[i].fault_probability
                   /\ Report.latestData.timestamp = processed_data[i].time
                   /\ \A j \in 1..Len(processed_data) :
                         /\ ~Less(processed_data[i].timestamp,
                                  processed_data[j].timestamp)
                         /\ processed_data[j].timestamp = processed_data[i].timestamp
                               => processed_data[j].src <= processed_data[i].src

\* a Report built from four points whose first and last differ
C6_Witness ==
    /\ Reported
    /\ Len(processed_data) >= 4
    /\ Report.availableWaterJets = ThreeDevices
    /\ processed_data[1].temperature # processed_data[Len(processed_data)].temperature
    /\ Report.latestData.temperature =
           processed_data[Len(processed_data)].temperature

(***************************************************************************)
(* C7  The device list tells the path: it is [WaterJet_01] exactly when    *)
(* the fallback Report is returned (empty sanitized input or a failure     *)
(* of series construction), and then the Report is the whole fallback:     *)
(* 11 probabilities 0.0 and latestData 25.0 / 0.0; otherwise it is the     *)
(* three-device list and the series and latestData come from the data.     *)
(***************************************************************************)
C7_DeviceListSignalsPath ==
    Reported =>
        /\ Report.availableWaterJets \in {OneDevice, ThreeDevices}
        /\ Report.availableWaterJets = OneDevice <=>
              (processed_data = <<>> \/ ConstructionFails(processed_data))
        /\ Report.availableWaterJets = OneDevice =>
              /\ Len(Report.timeSeries) = 11
              /\ \A i \in 1..11 :
                    /\ Report.timeSeries[i].probability = PyFloat(0)
                    /\ Report.timeSeries[i].timestamp = now
              /\ Report.latestData.temperature = PyFloat(250)
              /\ Report.latestData.faultProbability = PyFloat(0)
        /\ Report.availableWaterJets = ThreeDevices =>
              /\ processed_data # <<>>
              /\ Len(Report.timeSeries) = 11
              /\ \A i \in 1..11 : Report.timeSeries[i].timestamp = SlotEpoch(i)
              /\ Report.latestData.temperature =
                     processed_data[Len(processed_data)].temperature
              /\ Report.latestData.faultProbability =
                     processed_data[Len(processed_data)].fault_probability

\* the fallback returned for four points, two of them at one instant
C7_Witness ==
    /\ Reported
    /\ Len(processed_data) >= 4
    /\ Report.availableWaterJets = OneDevice
    /\ Report.timeSeries[1].probability = PyFloat(0)

(***************************************************************************)
(* C8  The sequence process_raw_data returns is sorted ascending by        *)
(* timestamp, and stably: points with equal timestamps keep the order      *)
(* their raw records had in the input, and none of them is dropped.        *)
(***************************************************************************)
C8_SortedAndStable ==
    Sanitized =>
        /\ \A i, j \in 1..Len(processed_data) :
              i < j =>
                 /\ Comparable(processed_data[i].timestamp, processed_data[j].timestamp)
                 /\ processed_data[i].timestamp.v <= processed_data[j].timestamp.v
                 /\ processed_data[i].timestamp = processed_data[j].timestamp
                       => processed_data[i].src < processed_data[j].src
        /\ \A k \in 1..Len(raw_data) :
              Convertible(Selected(raw_data[k])) => Cardinality(PointsOf(k)) = 1

\* an input out of order, holding two readings of one instant
C8_Witness ==
    /\ Sanitized
    /\ \E i, j \in 1..Len(processed_data) :
          i < j /\ processed_data[i].src > processed_data[j].src
    /\ \E i, j \in 1..Len(processed_data) :
          /\ i < j
          /\ processed_data[i].timestamp = processed_data[j].timestamp
          /\ processed_data[i].temperature # processed_data[j].temperature

(***************************************************************************)
(* C9  Records whose temperature entry is no number (a non-numeric         *)
(* string, None) are dropped without raising and without touching the      *)
(* others: process_raw_data ends on the batch as it ends on the batch      *)
(* with those records removed (the same points in the same order, or the   *)
(* same exception), and it returns as many points as there are records     *)
(* with a convertible temperature.                                         *)
(***************************************************************************)
C9_IsMalformed(rec) == Malformed(Selected(rec))
C9_IsWellFormed(rec) == ~Malformed(Selected(rec))

\* a point without the identity of its raw record, which removing records
\* from the batch renumbers
C9_Content(points) == [i \in 1..Len(points) |-> [points[i] EXCEPT !.src = 0]]

C10_ClaimedEntry(rec) ==
    IF rec.temperature.k # "absent" THEN rec.temperature
    ELSE IF rec.value.k # "absent" /\ rec.field \in {FieldTemperature, Absent}
    THEN rec.value
    ELSE Absent

C10_ValueOnlyWithoutOtherMetadata ==
    Sanitized =>
        \A k \in 1..Len(raw_data) :
            /\ PointsOf(k) # {} <=> Convertible(C10_ClaimedEntry(raw_data[k]))
            /\ \A i \in PointsOf(k) :
                  processed_data[i].temperature.v = C10_ClaimedEntry(raw_data[k]).v

(***************************************************************************)
(* C10 (amended)  The temperature is read from (a) the temperature field   *)
(* if the record has one; otherwise from the value field if the record     *)
(* has one, whatever its field metadata says or whether it has any.  The   *)
(* record yields a point exactly when that entry converts to a number,     *)
(* and the point carries that number; a record with a value field and      *)
(* field metadata naming something other than temperature yields a point   *)
(* from its value.                                                         *)
(***************************************************************************)
C10_ValueWhateverTheMetadata ==
    Sanitized =>
        \A k \in 1..Len(raw_data) :
            LET rec == raw_data[k]
                entry == IF rec.temperature.k # "absent" THEN rec.temperature
                         ELSE rec.value
            IN  /\ PointsOf(k) # {} <=> entry.k \in {"float", "numstr", "nan"}
                /\ \A i \in PointsOf(k) :
                      /\ processed_data[i].temperature.v = entry.v
                      /\ processed_data[i].temperature.k = "nan" <=> entry.k = "nan"
                      /\ processed_data[i].original_data = rec

\* a point made from the value of a record whose field names something else
C10_Witness ==
    /\ Sanitized
    /\ \E i \in 1..Len(processed_data) :
          /\ processed_data[i].original_data.field = FieldOther
          /\ processed_data[i].original_data.temperature = Absent
          /\ processed_data[i].temperature = PyFloat(265)

(***************************************************************************)
(* Vocabulary of the claims about the fetcher                              *)
(***************************************************************************)
\* get_current_dashboard holds the list get_data returned to it
DashboardHolds ==
    pc \in {"process_raw_data", "generate_time_series_data", "json_dumps",
            "returned", "raised"}

\* health_check holds the list get_data returned to it
HealthHolds == health_pc \in {"len", "respond"}

\* the batches a caller of get_data may see: those a refresh has stored
\* whole, and the empty list the module starts with
StoredWhole == published \cup {<<>>}

(***************************************************************************)
(* C11  Under any interleaving of the refresh thread with the request      *)
(* threads, the list get_data returned is a frozen snapshot: as long as    *)
(* the caller holds it, the list has the length and the elements it had    *)
(* when it was returned, and these are one whole batch stored by a single  *)
(* refresh (or the empty list of the start), never part of a batch being   *)
(* built nor records of two refreshes; the count health_check reports is   *)
(* the length of the snapshot it took.                                     *)
(***************************************************************************)
C11_FrozenSnapshot ==
    /\ DashboardHolds =>
          /\ raw_ref \in DOMAIN heap
          /\ raw_ref \notin {stored_data, data_list, current_data}
          /\ heap[raw_ref] = raw_data
          /\ raw_data \in StoredWhole
    /\ HealthHolds =>
          /\ current_data \in DOMAIN heap
          /\ current_data \notin {stored_data, data_list, raw_ref}
          /\ heap[current_data] = health_copy
          /\ health_copy \in StoredWhole
    /\ health_pc = "respond" => data_count = Len(health_copy)

\* a request still working on a full batch while the next refresh, having
\* queried other readings, is in the middle of building its list
C11_Witness ==
    /\ pc = "generate_time_series_data"
    /\ Len(raw_data) = MaxRows
    /\ heap[raw_ref] = raw_data
    /\ fetch_pc = "loop"
    /\ fetch_i = 2
    /\ Len(heap[data_list]) = 1
    /\ heap[data_list][1] \notin {raw_data[k] : k \in 1..Len(raw_data)}

(***************************************************************************)
(* C12  A record with neither a temperature key nor a value key matches    *)
(* no extraction rule and is skipped.  The records the fetcher stores      *)
(* have that shape (the reading under _value, the field name under         *)
(* _field, plus time and timestamp), so whatever get_data returns          *)
(* sanitizes to the empty sequence and get_current_dashboard gets the      *)
(* fallback Report (one device, 11 zeros, temperature 25.0) however many   *)
(* numeric readings were fetched; the pipeline does not raise.             *)
(***************************************************************************)
C12_FetchedBatchGivesFallback ==
    /\ DashboardHolds =>
          \A k \in 1..Len(raw_data) :
              /\ raw_data[k]._value.k = "float"
              /\ raw_data[k].temperature = Absent
              /\ raw_data[k].value = Absent
              /\ extract_temperature(raw_data[k]) = [exc |-> NoExc, val |-> PyNone]
    /\ pc # "raised"
    /\ Sanitized => processed_data = <<>>
    /\ Reported =>
          /\ Report = get_empty_time_series(now)
          /\ Report.availableWaterJets = OneDevice
          /\ Len(Report.timeSeries) = 11
          /\ \A i \in 1..11 : Report.timeSeries[i].probability = PyFloat(0)
          /\ Report.latestData.temperature = PyFloat(250)

\* the fallback returned for a full batch of numeric readings
C12_Witness ==
    /\ pc = "returned"
    /\ Len(raw_data) = MaxRows
    /\ \A k \in 1..Len(raw_data) : raw_data[k]._value.k = "float"
    /\ Report.availableWaterJets = OneDevice
    /\ Report.latestData.temperature = PyFloat(250)

====
